---- MODULE Spec2Model ----
(***************************************************************************)
(* LatexTemplateProcessor: discovery (extractVariables) and substitution   *)
(* (fillTemplate / process) of \newcommand{\NAME}{VALUE} markers.          *)
(*                                                                         *)
(* A text is a sequence of tokens.  Every token is one character of the    *)
(* program's string, except "N", which stands for the eleven characters    *)
(* \newcommand, and "[object Object]", which is what JavaScript writes for *)
(* a record inside a template literal.                                     *)
(*                                                                         *)
(* given is the text the constructor was called with; run is the state of  *)
(* one call of LatexTemplate.execute.                                      *)
(***************************************************************************)
EXTENDS Integers, Sequences, FiniteSets, TLC

VARIABLES content, op, data, output, variables, given, run

vars == <<content, op, data, output, variables, given, run>>

\* ------------------------------------------------------------------ bounds
\* Number of segments a template of the scalar specification is built from.
MaxSegs == 3

\* Number of lines of a template of the section specification, and number of
\* records of a data list.
MaxLines == 2

MaxRecs == 2

\* Input items of one call of execute.
MaxItems == 2

\* ------------------------------------------------------------- characters
\* \w of a JavaScript regular expression, over the tokens used here.
IsWord(c) == c \in {"a", "b", "d", "p", "x", "y", "A", "B", "C", "D", "P", "_"}

\* The character class of escapeRegex: . * + ? ^ $ { } ( ) | [ ] \
RegexSpecial == {".", "*", "+", "?", "^", "$", "{", "}", "(", ")", "|", "[", "]", "\\"}

\* ------------------------------------------------------------ escapeRegex
\* str.replace(/[.*+?^${}()|[\]\\]/g, '\\$&'): a backslash before every
\* special character.
RECURSIVE escapeRegex(_)
escapeRegex(str) ==
    IF str = <<>> THEN <<>>
    ELSE (IF Head(str) \in RegexSpecial THEN <<"\\", Head(str)>> ELSE <<Head(str)>>)
         \o escapeRegex(Tail(str))

\* What new RegExp makes of the name part of the pattern source: a backslash
\* followed by a character is that character taken literally, a bare dot is
\* any character but a line terminator, anything else is itself.
RECURSIVE RegexAtoms(_)
RegexAtoms(src) ==
    IF src = <<>> THEN <<>>
    ELSE IF Head(src) = "\\" /\ Len(src) >= 2
         THEN <<[any |-> FALSE, ch |-> src[2]]>> \o RegexAtoms(Tail(Tail(src)))
    ELSE IF Head(src) = "."
         THEN <<[any |-> TRUE, ch |-> "."]>> \o RegexAtoms(Tail(src))
    ELSE <<[any |-> FALSE, ch |-> Head(src)]>> \o RegexAtoms(Tail(src))

AtomMatches(atom, c) == IF atom.any THEN c # "\n" ELSE c = atom.ch

\* --------------------------------------------------------- regex matching
\* Position of the first "}" at or after j, 0 when there is none: where
\* [^}]*\} ends.
RECURSIVE ValueEnd(_, _)
ValueEnd(text, j) ==
    IF j > Len(text) THEN 0
    ELSE IF text[j] = "}" THEN j
    ELSE ValueEnd(text, j + 1)

\* Last position of the run of word characters starting at j (j - 1 when
\* text[j] is no word character): what the greedy \w+ takes.
RECURSIVE WordEnd(_, _)
WordEnd(text, j) ==
    IF j > Len(text) \/ ~IsWord(text[j]) THEN j - 1
    ELSE WordEnd(text, j + 1)

NoMatch == [ok |-> FALSE, name |-> <<>>, value |-> <<>>, end |-> 0]

\* /\\newcommand\{\\(\w+)\}\{([^}]*)\}/ tried at position i.
ExtractMatchAt(text, i) ==
    IF ~(i + 2 <= Len(text) /\ text[i] = "N" /\ text[i + 1] = "{" /\ text[i + 2] = "\\")
    THEN NoMatch
    ELSE LET ne == WordEnd(text, i + 3) IN
         IF ~(ne >= i + 3 /\ ne + 2 <= Len(text) /\ text[ne + 1] = "}" /\ text[ne + 2] = "{")
         THEN NoMatch
         ELSE LET k == ValueEnd(text, ne + 3) IN
              IF k = 0 THEN NoMatch
              ELSE [ok |-> TRUE, name |-> SubSeq(text, i + 3, ne),
                    value |-> SubSeq(text, ne + 3, k - 1), end |-> k]

\* The fill pattern with \w+ in place of the name.
FillMatchAtAnyName(text, i, atoms) == ExtractMatchAt(text, i)

\* new RegExp(`\\\\newcommand\\{\\\\${escapeRegex(varName)}\\}\\{[^}]*\\}`)
\* tried at position i; atoms is the name part of the pattern.
FillMatchAt(text, i, atoms) ==
    LET n == Len(atoms) IN
    IF ~(i + 2 <= Len(text) /\ text[i] = "N" /\ text[i + 1] = "{" /\ text[i + 2] = "\\")
    THEN NoMatch
    ELSE IF ~(i + 4 + n <= Len(text)
              /\ \A j \in 1..n : AtomMatches(atoms[j], text[i + 2 + j])
              /\ text[i + 3 + n] = "}" /\ text[i + 4 + n] = "{")
    THEN NoMatch
    ELSE LET k == ValueEnd(text, i + 5 + n) IN
         IF k = 0 THEN NoMatch
         ELSE [ok |-> TRUE, name |-> SubSeq(text, i + 3, i + 2 + n),
               value |-> SubSeq(text, i + 5 + n, k - 1), end |-> k]

\* First position at or after i where the discovery pattern matches, 0 when
\* there is none: one regex.exec call of a global regex with lastIndex = i - 1.
RECURSIVE ExtractExec(_, _)
ExtractExec(text, i) ==
    IF i > Len(text) THEN 0
    ELSE IF ExtractMatchAt(text, i).ok THEN i
    ELSE ExtractExec(text, i + 1)

\* ------------------------------------------------------- ordered mappings
\* A JavaScript object with string keys: a sequence of entries in insertion
\* order, no key twice.
Keys(m) == {m[i].k : i \in 1..Len(m)}

\* variables[varName] = currentValue: overwrite in place, or append.
AssignFirstWins(m, key, val) ==
    IF key \in Keys(m) THEN m ELSE Append(m, [k |-> key, v |-> val])

Assign(m, key, val) ==
    IF key \in Keys(m)
    THEN [i \in 1..Len(m) |-> IF m[i].k = key THEN [k |-> key, v |-> val] ELSE m[i]]
    ELSE Append(m, [k |-> key, v |-> val])

\* ------------------------------------------------------- extractVariables
\* while ((match = regex.exec(this.content)) !== null) variables[..] = ..
RECURSIVE ExtractLoop(_, _, _)
ExtractLoop(text, from, acc) ==
    LET i == ExtractExec(text, from) IN
    IF i = 0 THEN acc
    ELSE LET m == ExtractMatchAt(text, i) IN
         ExtractLoop(text, m.end + 1, Assign(acc, m.name, m.value))

extractVariables(text) == ExtractLoop(text, 1, <<>>)

\* ------------------------------------------------------------ values
\* A value of the mapping: a string, or an array of records.
Str(s) == [arr |-> FALSE, s |-> s, recs |-> <<>>]
Arr(recs) == [arr |-> TRUE, s |-> <<>>, recs |-> recs]

\* ${newValue} in a template literal: a string is itself, an array is its
\* elements joined by commas, a record element is [object Object].
RECURSIVE JoinRecs(_)
JoinRecs(recs) ==
    IF recs = <<>> THEN <<>>
    ELSE IF Len(recs) = 1 THEN <<"[object Object]">>
    ELSE <<"[object Object]", ",">> \o JoinRecs(Tail(recs))

ToStr(val) == IF val.arr THEN JoinRecs(val.recs) ELSE val.s

\* ------------------------------------------------------------ String.replace
\* The replacement string of String.prototype.replace is a pattern: $$ is a
\* dollar, $& the match, $` the text before it, $' the text after it.  The
\* regex has no capture group, so $1..$99 and $<name> stay as written.
RECURSIVE GetSubstitution(_, _, _, _)
GetSubstitution(repl, text, s, e) ==
    IF repl = <<>> THEN <<>>
    ELSE IF Head(repl) = "$" /\ Len(repl) >= 2 /\ repl[2] \in {"$", "&", "`", "'"}
         THEN (CASE repl[2] = "$" -> <<"$">>
                 [] repl[2] = "&" -> SubSeq(text, s, e)
                 [] repl[2] = "`" -> SubSeq(text, 1, s - 1)
                 [] repl[2] = "'" -> SubSeq(text, e + 1, Len(text)))
              \o GetSubstitution(Tail(Tail(repl)), text, s, e)
    ELSE <<Head(repl)>> \o GetSubstitution(Tail(repl), text, s, e)

\* output.replace(regex, replacement) with the g flag: every match, left to
\* right, none overlapping; the text between matches is copied.
RECURSIVE ReplaceFrom(_, _, _, _)
ReplaceFrom(text, atoms, repl, i) ==
    IF i > Len(text) THEN <<>>
    ELSE LET m == FillMatchAt(text, i, atoms) IN
         IF m.ok
         THEN GetSubstitution(repl, text, i, m.end) \o ReplaceFrom(text, atoms, repl, m.end + 1)
         ELSE <<text[i]>> \o ReplaceFrom(text, atoms, repl, i + 1)

Replace(text, atoms, repl) == ReplaceFrom(text, atoms, repl, 1)

\* ------------------------------------------------------------ fillTemplate
\* The pattern of one mapping key, and the replacement string of one entry.
NamePatternRaw(varName) == RegexAtoms(varName)

NamePattern(varName) == RegexAtoms(escapeRegex(varName))

Replacement(varName, newValue) ==
    <<"N", "{", "\\">> \o varName \o <<"}", "{">> \o ToStr(newValue) \o <<"}">>

\* One iteration of the loop over Object.entries(data).
FillOne(out, entry) == Replace(out, NamePattern(entry.k), Replacement(entry.k, entry.v))

RECURSIVE FillLoop(_, _)
FillLoop(out, entries) ==
    IF entries = <<>> THEN out
    ELSE FillLoop(FillOne(out, Head(entries)), Tail(entries))

fillTemplate(text, d) == FillLoop(text, d)

\* Buffer.from(content, 'utf-8'): every token of the model is ASCII, so the
\* bytes of the buffer are the characters of the text, one for one.
toBuffer(text) == text

process(text, d) == toBuffer(fillTemplate(text, d))

\* ------------------------------------------------------------ escaping
\* The escaping utility: the escape character first, written as one token
\* that the later replacements leave alone, then every other special
\* character with a backslash before it.
LatexSpecial == {"&", "%", "$", "#", "_", "{", "}"}

RECURSIVE escapeLatex(_)
escapeLatex(str) ==
    IF str = <<>> THEN <<>>
    ELSE (IF Head(str) = "\\" THEN <<"\\textbackslash{}">>
          ELSE IF Head(str) = "N" THEN <<"\\textbackslash{}", "newcommand">>
          ELSE IF Head(str) \in LatexSpecial THEN <<"\\", Head(str)>>
          ELSE <<Head(str)>>)
         \o escapeLatex(Tail(str))

\* ------------------------------------------------------------ inputs
\* \newcommand{\name}{value}
Marker(name, value) == <<"N", "{", "\\">> \o name \o <<"}", "{">> \o value \o <<"}">>

\* The pieces a template is put together from: markers of two names, one of
\* them twice with different values, one with dollars in its value; the
\* opening of a marker, which nests the piece that follows it; an opening
\* brace.
Segments ==
    { Marker(<<"a">>, <<"x">>),
      Marker(<<"a">>, <<"y">>),
      Marker(<<"b">>, <<"$", "$">>),
      <<"N", "{", "\\", "b", "}", "{">>,
      <<"{">> }

RECURSIVE Concat(_)
Concat(segs) == IF segs = <<>> THEN <<>> ELSE Head(segs) \o Concat(Tail(segs))

Templates == UNION { {Concat(ss) : ss \in [1..n -> Segments]} : n \in 0..MaxSegs }

\* The names a mapping may give a value to.
Names == { <<"a">>, <<"b">> }

\* The values: plain text, text with the special characters of LaTeX, text
\* with the patterns of String.replace, text that closes the marker and opens
\* another one (whole, or up to its name), and an array of records.
Values ==
    { Str(<<"x">>),
      Str(<<"A", " ", "&", " ", "B", "_", "C">>),
      Str(<<"$", "$">>),
      Str(<<"$", "&">>),
      Str(<<"}", "N", "{", "\\", "b", "}", "{", "y">>),
      Str(<<"}", "N", "{", "\\", "b">>),
      Arr(<< <<[k |-> <<"d">>, v |-> <<"x">>]>> >>) }

Entries == [k : Names, v : Values]

\* Every object over Names, in every insertion order.
Mappings ==
    {<<>>} \cup {<<e>> : e \in Entries}
           \cup {<<p[1], p[2]>> : p \in {q \in Entries \X Entries : q[1].k # q[2].k}}

\* ------------------------------------------------------------ the processor
\* this.content after fillTemplate has run: the method works on the local
\* variable output and never assigns the field.
StoredContentFilled(text, filled) == filled

StoredContent(text, filled) == text

\* No call of execute is under way.
NoRun == [variant |-> "none", items |-> <<>>, continueOnFail |-> FALSE, i |-> 0,
          returnData |-> <<>>, thrown |-> <<>>, pc |-> "none"]

\* new LatexTemplateProcessor(content)
Init ==
    /\ content \in Templates
    /\ op = "idle"
    /\ data = <<>>
    /\ output = <<>>
    /\ variables = <<>>
    /\ given = content
    /\ run = NoRun

ExtractVariables ==
    /\ op = "idle"
    /\ op' = "extractVariables"
    /\ variables' = extractVariables(content)
    /\ data' = <<>>
    /\ output' = <<>>
    /\ UNCHANGED <<content, given, run>>

FillTemplate ==
    \E d \in Mappings :
        /\ op = "idle"
        /\ op' = "fillTemplate"
        /\ data' = d
        /\ output' = fillTemplate(content, d)
        /\ variables' = <<>>
        /\ content' = StoredContent(content, fillTemplate(content, d))
        /\ UNCHANGED <<given, run>>

Process ==
    \E d \in Mappings :
        /\ op = "idle"
        /\ op' = "process"
        /\ data' = d
        /\ output' = process(content, d)
        /\ variables' = <<>>
        /\ content' = StoredContent(content, process(content, d))
        /\ UNCHANGED <<given, run>>

\* fillTemplate called with what extractVariables returned.
FillDiscovered ==
    LET d == [i \in 1..Len(extractVariables(content)) |->
                 [k |-> extractVariables(content)[i].k,
                  v |-> Str(extractVariables(content)[i].v)]] IN
    /\ op = "idle"
    /\ op' = "fillDiscovered"
    /\ data' = d
    /\ output' = fillTemplate(content, d)
    /\ variables' = extractVariables(content)
    /\ UNCHANGED <<content, given, run>>

\* The caller takes the returned value; the processor is ready for the next
\* call.
Return ==
    /\ op # "idle"
    /\ op' = "idle"
    /\ data' = <<>>
    /\ output' = <<>>
    /\ variables' = <<>>
    /\ UNCHANGED <<content, given, run>>

Next == ExtractVariables \/ FillTemplate \/ Process \/ FillDiscovered \/ Return

Spec == Init /\ [][Next]_vars

\* ------------------------------------------------------------ sections
\* The processor's section operations are called by getTemplateFields but are
\* not part of the class as given; they follow the design's description.
\* "R" stands for the text % REPEAT_ROW( and "V" for the text $VAR_ .

\* String.toLowerCase on the field name of a placeholder.
Lower(c) == CASE c = "D" -> "d" [] c = "P" -> "p" [] c = "A" -> "a"
              [] c = "B" -> "b" [] c = "C" -> "c" [] OTHER -> c

LowerAll(str) == [i \in 1..Len(str) |-> Lower(str[i])]

\* Position of the first line terminator at or after j, 0 when there is none.
RECURSIVE LineEnd(_, _)
LineEnd(text, j) ==
    IF j > Len(text) THEN 0
    ELSE IF text[j] = "\n" THEN j
    ELSE LineEnd(text, j + 1)

NoDirective == [ok |-> FALSE, name |-> <<>>, row |-> <<>>, end |-> 0]

\* The directive % REPEAT_ROW(NAME) <row template> tried at position i: the
\* row template is the rest of the line, the match takes the line terminator.
DirectiveAt(text, i) ==
    IF ~(i <= Len(text) /\ text[i] = "R") THEN NoDirective
    ELSE LET ne == WordEnd(text, i + 1) IN
         IF ~(ne >= i + 1 /\ ne + 2 <= Len(text) /\ text[ne + 1] = ")" /\ text[ne + 2] = " ")
         THEN NoDirective
         ELSE LET nl == LineEnd(text, ne + 3) IN
              [ok |-> TRUE, name |-> SubSeq(text, i + 1, ne),
               row |-> SubSeq(text, ne + 3, IF nl = 0 THEN Len(text) ELSE nl - 1),
               end |-> IF nl = 0 THEN Len(text) ELSE nl]

\* The directives of a text, left to right, each with the text it matched.
RECURSIVE DirectivesFrom(_, _)
DirectivesFrom(text, i) ==
    IF i > Len(text) THEN <<>>
    ELSE LET m == DirectiveAt(text, i) IN
         IF m.ok
         THEN <<[name |-> m.name, row |-> m.row, text |-> SubSeq(text, i, m.end)]>>
              \o DirectivesFrom(text, m.end + 1)
         ELSE DirectivesFrom(text, i + 1)

Directives(text) == DirectivesFrom(text, 1)

\* The placeholders $VAR_xxx of a row template, left to right.
RECURSIVE PlaceholdersFrom(_, _)
PlaceholdersFrom(row, i) ==
    IF i > Len(row) THEN <<>>
    ELSE IF row[i] = "V" /\ WordEnd(row, i + 1) >= i + 1
         THEN <<[text |-> SubSeq(row, i, WordEnd(row, i + 1)),
                 field |-> LowerAll(SubSeq(row, i + 1, WordEnd(row, i + 1)))]>>
              \o PlaceholdersFrom(row, WordEnd(row, i + 1) + 1)
    ELSE PlaceholdersFrom(row, i + 1)

Placeholders(row) == PlaceholdersFrom(row, 1)

\* Every occurrence of a non-empty text replaced by another, literally.
RECURSIVE ReplaceAllLiteral(_, _, _)
ReplaceAllLiteral(text, what, by) ==
    IF Len(text) < Len(what) \/ what = <<>> THEN text
    ELSE IF SubSeq(text, 1, Len(what)) = what
         THEN by \o ReplaceAllLiteral(SubSeq(text, Len(what) + 1, Len(text)), what, by)
    ELSE <<Head(text)>> \o ReplaceAllLiteral(Tail(text), what, by)

\* The value of a field of a record, the empty text when it is absent.
FieldOf(rec, field) ==
    IF field \in Keys(rec) THEN rec[CHOOSE i \in 1..Len(rec) : rec[i].k = field].v ELSE <<>>

\* One row: the row template with every placeholder replaced by the escaped
\* value of its field.
RECURSIVE SubstituteFields(_, _, _)
SubstituteFields(row, phs, rec) ==
    IF phs = <<>> THEN row
    ELSE SubstituteFields(
             ReplaceAllLiteral(row, Head(phs).text, escapeLatex(FieldOf(rec, Head(phs).field))),
             Tail(phs), rec)

ExpandRow(row, rec) == SubstituteFields(row, Placeholders(row), rec)

\* The rows in the opposite order.
RECURSIVE RowsForReversed(_, _)
RowsForReversed(row, recs) ==
    IF recs = <<>> THEN <<>>
    ELSE RowsForReversed(row, Tail(recs)) \o ExpandRow(row, Head(recs)) \o <<"\n">>

\* The rows of a data list, in list order, each ended by a line terminator.
RECURSIVE RowsFor(_, _)
RowsFor(row, recs) ==
    IF recs = <<>> THEN <<>>
    ELSE ExpandRow(row, Head(recs)) \o <<"\n">> \o RowsFor(row, Tail(recs))

\* The data list of a section: the array under its name, empty when the
\* mapping has no array there.
ItemsOf(d, name) ==
    IF \E i \in 1..Len(d) : d[i].k = name /\ d[i].v.arr
    THEN d[CHOOSE i \in 1..Len(d) : d[i].k = name].v.recs
    ELSE <<>>

\* The same, a directive with an empty list left where it is.
RECURSIVE ExpandLoopSkipEmpty(_, _, _)
ExpandLoopSkipEmpty(out, dirs, d) ==
    IF dirs = <<>> THEN out
    ELSE ExpandLoopSkipEmpty(
             IF ItemsOf(d, Head(dirs).name) = <<>> THEN out
             ELSE ReplaceAllLiteral(out, Head(dirs).text,
                                    RowsFor(Head(dirs).row, ItemsOf(d, Head(dirs).name))),
             Tail(dirs), d)

\* Each directive of the template in turn, replaced in the text so far by its
\* rows, or deleted when its list is empty.
RECURSIVE ExpandLoop(_, _, _)
ExpandLoop(out, dirs, d) ==
    IF dirs = <<>> THEN out
    ELSE ExpandLoop(
             ReplaceAllLiteral(out, Head(dirs).text, RowsFor(Head(dirs).row, ItemsOf(d, Head(dirs).name))),
             Tail(dirs), d)

fillRepeatingSections(text, d) == ExpandLoop(text, Directives(text), d)

\* Lines of the section templates: two directives, one of them naming a field
\* twice, and a line of plain text.
SectionLines ==
    { <<"R", "a", ")", " ", "V", "D", " ", "&", " ", "V", "P", " ", "\\", "\\", "\n">>,
      <<"R", "b", ")", " ", "V", "D", "V", "D", "\n">>,
      <<"x", "\n">> }

SectionTemplates == UNION { {Concat(ss) : ss \in [1..n -> SectionLines]} : n \in 0..MaxLines }

\* Records: both fields present, or one absent and the other with a special
\* character.
Records ==
    { <<[k |-> <<"d">>, v |-> <<"x">>], [k |-> <<"p">>, v |-> <<"y">>]>>,
      <<[k |-> <<"d">>, v |-> <<"x", "&", "y">>]>> }

SectionValues ==
    {Str(<<"x">>)} \cup UNION { {Arr(rs) : rs \in [1..n -> Records]} : n \in 0..MaxRecs }

SectionEntries == [k : Names, v : SectionValues]

SectionMappings ==
    {<<>>} \cup {<<e>> : e \in SectionEntries}
           \cup {<<p[1], p[2]>> : p \in {q \in SectionEntries \X SectionEntries : q[1].k # q[2].k}}

InitSections ==
    /\ content \in SectionTemplates
    /\ op = "idle"
    /\ data = <<>>
    /\ output = <<>>
    /\ variables = <<>>
    /\ given = content
    /\ run = NoRun

FillRepeatingSections ==
    \E d \in SectionMappings :
        /\ op = "idle"
        /\ op' = "fillRepeatingSections"
        /\ data' = d
        /\ output' = fillRepeatingSections(content, d)
        /\ variables' = <<>>
        /\ UNCHANGED <<content, given, run>>

NextSections == FillRepeatingSections \/ Return

SpecSections == InitSections /\ [][NextSections]_vars

\* ------------------------------------------------------------ vocabulary
\* The marker occurrences of a text, left to right: the matches of the
\* discovery pattern, as name and value.
RECURSIVE MarkersFrom(_, _)
MarkersFrom(text, from) ==
    LET i == ExtractExec(text, from) IN
    IF i = 0 THEN <<>>
    ELSE LET m == ExtractMatchAt(text, i) IN
         <<[name |-> m.name, value |-> m.value]>> \o MarkersFrom(text, m.end + 1)

Markers(text) == MarkersFrom(text, 1)

\* The occurrences of one name / of the names outside a set.
MarkersNamed(text, name) == SelectSeq(Markers(text), LAMBDA m : m.name = name)

MarkersNotNamed(text, names) == SelectSeq(Markers(text), LAMBDA m : m.name \notin names)

\* s is t with some elements left out.
RECURSIVE IsSubsequence(_, _)
IsSubsequence(s, t) ==
    IF s = <<>> THEN TRUE
    ELSE IF t = <<>> THEN FALSE
    ELSE IF Head(s) = Head(t) THEN IsSubsequence(Tail(s), Tail(t))
    ELSE IsSubsequence(s, Tail(t))

\* The text \newcommand{\name}{ stands somewhere in the text with a closing
\* brace after it.
HasMarkerText(text, name) ==
    LET h == <<"N", "{", "\\">> \o name \o <<"}", "{">> IN
    \E i \in 1..Len(text) :
        /\ i + Len(h) - 1 <= Len(text)
        /\ SubSeq(text, i, i + Len(h) - 1) = h
        /\ \E j \in (i + Len(h))..Len(text) : text[j] = "}"

Rendered == op \in {"fillTemplate", "process"}

\* ------------------------------------------------------------ claims
\* C1: every marker of the template whose name is no key of the mapping is a
\* marker of the rendered output, with the same value and in the same order.
C1_UnmappedPreserved ==
    Rendered =>
        IsSubsequence(MarkersNotNamed(content, Keys(data)),
                      MarkersNotNamed(output, Keys(data)))

\* The string entries of a mapping.
IsScalarMapping(d) == \A i \in 1..Len(d) : ~d[i].v.arr

\* C2: when the template has several markers of one name and the mapping
\* gives that name a string, every marker of that name in the rendered output
\* carries that string, and there are at least as many as in the template.
C2_Multiplicity ==
    (Rendered /\ Len(data) = 1 /\ IsScalarMapping(data)
        /\ Len(MarkersNamed(content, data[1].k)) >= 2)
    => /\ Len(MarkersNamed(output, data[1].k)) >= Len(MarkersNamed(content, data[1].k))
       /\ \A i \in 1..Len(MarkersNamed(output, data[1].k)) :
              MarkersNamed(output, data[1].k)[i].value = data[1].v.s

\* C4: filling the template with what discovery returned gives the template
\* back.
C4_RoundTrip == op = "fillDiscovered" => output = content

\* C5: a render with strings only leaves the number of markers as it was.
C5_MarkerCount ==
    (Rendered /\ IsScalarMapping(data)) => Len(Markers(output)) = Len(Markers(content))

\* C7: a string written into a marker is written escaped: every marker of the
\* mapped name carries the escaped form of the value.
C7_Escaped ==
    (Rendered /\ Len(data) = 1 /\ IsScalarMapping(data))
    => \A i \in 1..Len(MarkersNamed(output, data[1].k)) :
           MarkersNamed(output, data[1].k)[i].value = escapeLatex(data[1].v.s)

\* C10: a marker whose name has an array in the mapping keeps its value, and
\* the string entries of the other names are written.
C10_ArrayNotScalar ==
    Rendered =>
        \A i \in 1..Len(data) :
            data[i].v.arr =>
                MarkersNamed(output, data[i].k) = MarkersNamed(content, data[i].k)

C6_Discovery ==
    op = "extractVariables" =>
        /\ Keys(variables) = {Markers(content)[i].name : i \in 1..Len(Markers(content))}
        /\ Len(variables) = Cardinality(Keys(variables))
        /\ \A i \in 1..Len(variables) :
               LET occ == MarkersNamed(content, variables[i].k) IN
               variables[i].v = occ[Len(occ)].value

\* C6 witness: discovery on a template with two markers of one name and
\* different values.
C6_Witness ==
    /\ op = "extractVariables"
    /\ Len(MarkersNamed(content, <<"a">>)) = 2
    /\ MarkersNamed(content, <<"a">>)[1].value # MarkersNamed(content, <<"a">>)[2].value
    /\ variables = <<[k |-> <<"a">>, v |-> MarkersNamed(content, <<"a">>)[2].value]>>

\* ------------------------------------------------------------ section claims
\* A row as the claim describes it: the row template read left to right, each
\* placeholder giving the escaped value of its lowercased field.
RECURSIVE ExpectedRowFrom(_, _, _)
ExpectedRowFrom(row, i, rec) ==
    IF i > Len(row) THEN <<>>
    ELSE IF row[i] = "V" /\ WordEnd(row, i + 1) >= i + 1
         THEN escapeLatex(FieldOf(rec, LowerAll(SubSeq(row, i + 1, WordEnd(row, i + 1)))))
              \o ExpectedRowFrom(row, WordEnd(row, i + 1) + 1, rec)
    ELSE <<row[i]>> \o ExpectedRowFrom(row, i + 1, rec)

\* The expansion as the claims describe it: the template read left to right,
\* each directive line giving one line per record of its list, in list order.
RECURSIVE ExpectedFrom(_, _, _)
ExpectedFrom(text, i, d) ==
    IF i > Len(text) THEN <<>>
    ELSE IF DirectiveAt(text, i).ok
         THEN LET m == DirectiveAt(text, i)
                  recs == ItemsOf(d, m.name) IN
              Concat([j \in 1..Len(recs) |-> ExpectedRowFrom(m.row, 1, recs[j]) \o <<"\n">>])
              \o ExpectedFrom(text, m.end + 1, d)
    ELSE <<text[i]>> \o ExpectedFrom(text, i + 1, d)

Occurs(what, text) ==
    \E i \in 1..Len(text) :
        i + Len(what) - 1 <= Len(text) /\ SubSeq(text, i, i + Len(what) - 1) = what

CountOf(c, text) == Cardinality({i \in 1..Len(text) : text[i] = c})

RECURSIVE SumRows(_, _)
SumRows(dirs, d) ==
    IF dirs = <<>> THEN 0
    ELSE Len(ItemsOf(d, Head(dirs).name)) + SumRows(Tail(dirs), d)

Expanded == op = "fillRepeatingSections"

\* C8: a directive whose name has no list in the mapping, or an empty one, is
\* gone from the output with its line terminator, and nothing stands in its
\* place.
C8_EmptySection ==
    Expanded =>
        \A i \in 1..Len(Directives(content)) :
            ItemsOf(data, Directives(content)[i].name) = <<>> =>
                /\ ~Occurs(Directives(content)[i].text, output)
                /\ output = ExpectedFrom(content, 1, data)
                /\ CountOf("\n", output) =
                       CountOf("\n", content) - Len(Directives(content))
                           + SumRows(Directives(content), data)

\* C8 witness: a template of a directive and a line of text, expanded with an
\* empty list for the directive: the line of text is all that is left.
C8_Witness ==
    /\ Expanded
    /\ Len(Directives(content)) = 1
    /\ Directives(content)[1].name = <<"a">>
    /\ data = <<[k |-> <<"a">>, v |-> Arr(<<>>)]>>
    /\ content # Directives(content)[1].text
    /\ output = <<"x", "\n">>

\* C9: a directive whose list has N >= 1 records is replaced by N lines, one
\* per record in list order, each ended by a line terminator, every
\* placeholder replaced by the escaped value of its lowercased field.
C9_Expansion ==
    (Expanded /\ \E i \in 1..Len(Directives(content)) :
                     ItemsOf(data, Directives(content)[i].name) # <<>>)
    => /\ output = ExpectedFrom(content, 1, data)
       /\ CountOf("\n", output) =
              CountOf("\n", content) - Len(Directives(content))
                  + SumRows(Directives(content), data)

\* C9 witness: a directive expanded with two different records, the second
\* with a special character and an absent field.
C9_Witness ==
    /\ Expanded
    /\ content = <<"R", "a", ")", " ", "V", "D", " ", "&", " ", "V", "P", " ", "\\", "\\", "\n">>
    /\ data = <<[k |-> <<"a">>,
                 v |-> Arr(<< <<[k |-> <<"d">>, v |-> <<"x">>], [k |-> <<"p">>, v |-> <<"y">>]>>,
                              <<[k |-> <<"d">>, v |-> <<"x", "&", "y">>]>> >>)]>>
    /\ output = <<"x", " ", "&", " ", "y", " ", "\\", "\\", "\n",
                  "x", "\\", "&", "y", " ", "&", " ", " ", "\\", "\\", "\n">>

\* ------------------------------------------------------------ instance claims
\* C11: whatever has been called on a processor, its stored text is the text
\* the constructor was given, and discovery returns the names and values of
\* that text.
C11_ContentReadOnly ==
    /\ content = given
    /\ op = "extractVariables" =>
           /\ Keys(variables) = {Markers(given)[i].name : i \in 1..Len(Markers(given))}
           /\ \A i \in 1..Len(variables) :
                  LET occ == MarkersNamed(given, variables[i].k) IN
                  variables[i].v = occ[Len(occ)].value

\* C11 witness: process has returned a text that differs from the template,
\* and the stored text is still the template.
C11_Witness ==
    /\ op = "process"
    /\ Markers(given) # <<>>
    /\ output # given
    /\ content = given

\* ------------------------------------------------------------ execute
\* The node's execute method, in its file variant (the template is read from
\* a path, the mapping is the resource mapper's value) and its binary variant
\* (the template is a binary property of the item, the mapping is a list of
\* variable/value pairs).  An input item is the outcome of the calls that
\* depend on the item index: whether the template can be loaded, its text,
\* and the mapping parameter, a sequence of no or one mapping for the
\* optional field.
ObjectKeys(obj) == [j \in 1..Len(obj) |-> obj[j].k]

\* buffer.length: the bytes of the text.
RECURSIVE ByteLen(_)
ByteLen(text) ==
    IF text = <<>> THEN 0
    ELSE (CASE Head(text) = "N" -> 11
            [] Head(text) = "[object Object]" -> 15
            [] OTHER -> 1) + ByteLen(Tail(text))

\* for (const m of mappings) if (m.variable && m.value !== undefined &&
\* m.value !== '') templateData[m.variable] = String(m.value)
RECURSIVE FromMappings(_, _)
FromMappings(mappings, acc) ==
    IF mappings = <<>> THEN acc
    ELSE LET m == Head(mappings) IN
         FromMappings(Tail(mappings),
                      IF m.k # <<>> /\ ToStr(m.v) # <<>>
                      THEN Assign(acc, m.k, Str(ToStr(m.v)))
                      ELSE acc)

\* mappedVariables.value || {}, resp. the object built from
\* mappingsParam.mapping || [].
TemplateData(variant, param) ==
    IF param = <<>> THEN <<>>
    ELSE IF variant = "file" THEN param[1]
    ELSE FromMappings(param[1], <<>>)

\* The entry pushed at the end of the try block: process, then
\* extractVariables on the same processor.
SuccessEntry(item, templateData, i) ==
    LET filledBuffer == process(item.template, templateData)
        templateVariables ==
            extractVariables(StoredContent(item.template, filledBuffer)) IN
    [json |-> [success |-> TRUE,
               templateVariables |-> ObjectKeys(templateVariables),
               variablesReplaced |-> ObjectKeys(templateData),
               replacementCount |-> Len(ObjectKeys(templateData)),
               outputSize |-> ByteLen(filledBuffer)],
     pairedItem |-> i]

FailureEntry(message, i) ==
    [json |-> [success |-> FALSE, error |-> message], pairedItem |-> i]

\* The catch block, with the i++ of the loop when it does not throw.
CaughtSkips(r, message) ==
    IF r.continueOnFail
    THEN [r EXCEPT !.i = r.i + 1]
    ELSE [r EXCEPT !.thrown = <<[message |-> message, itemIndex |-> r.i]>>,
                   !.pc = "thrown"]

Caught(r, message) ==
    IF r.continueOnFail
    THEN [r EXCEPT !.returnData = Append(r.returnData, FailureEntry(message, r.i)),
                   !.i = r.i + 1]
    ELSE [r EXCEPT !.thrown = <<[message |-> message, itemIndex |-> r.i]>>,
                   !.pc = "thrown"]

ExecTemplates ==
    { Marker(<<"a">>, <<"x">>),
      Marker(<<"a">>, <<"x">>) \o Marker(<<"b">>, <<"y">>) }

ExecParams ==
    { <<>>,
      << <<>> >>,
      << <<[k |-> <<"a">>, v |-> Str(<<"y">>)]>> >>,
      << <<[k |-> <<"b">>, v |-> Str(<<"z">>)]>> >>,
      << <<[k |-> <<"a">>, v |-> Str(<<>>)], [k |-> <<"b">>, v |-> Str(<<"z">>)]>> >> }

Items ==
    {[readable |-> FALSE, template |-> <<>>, param |-> <<>>]}
        \cup [readable : {TRUE}, template : ExecTemplates, param : ExecParams]

\* const items = this.getInputData(); const returnData = []; i = 0
InitExecute ==
    /\ content = <<>>
    /\ given = <<>>
    /\ op = "idle"
    /\ data = <<>>
    /\ output = <<>>
    /\ variables = <<>>
    /\ \E n \in 0..MaxItems :
           run \in [variant : {"file", "binary"},
                    items : [1..n -> Items],
                    continueOnFail : BOOLEAN,
                    i : {0},
                    returnData : {<<>>},
                    thrown : {<<>>},
                    pc : {"loop"}]

\* One iteration in which nothing throws.
ItemSucceeds ==
    /\ run.pc = "loop"
    /\ run.i < Len(run.items)
    /\ run.items[run.i + 1].readable
    /\ LET item == run.items[run.i + 1]
           templateData == TemplateData(run.variant, item.param) IN
       run' = [run EXCEPT
                  !.returnData = Append(run.returnData,
                                        SuccessEntry(item, templateData, run.i)),
                  !.i = run.i + 1]
    /\ UNCHANGED <<content, given, op, data, output, variables>>

\* One iteration in which loading the template throws.
ItemFails ==
    /\ run.pc = "loop"
    /\ run.i < Len(run.items)
    /\ ~run.items[run.i + 1].readable
    /\ run' = Caught(run, "cannot load the template")
    /\ UNCHANGED <<content, given, op, data, output, variables>>

\* return [returnData]
ExecuteReturns ==
    /\ run.pc = "loop"
    /\ run.i = Len(run.items)
    /\ run' = [run EXCEPT !.pc = "returned"]
    /\ UNCHANGED <<content, given, op, data, output, variables>>

NextExecute == ItemSucceeds \/ ItemFails \/ ExecuteReturns

SpecExecute == InitExecute /\ [][NextExecute]_vars

\* ------------------------------------------------------------ execute claims
\* C12: with continue-on-fail, execute never throws, the entries pushed so
\* far are those of the items gone through, in order, entry j paired with
\* item j, a success entry for an item that loads and {success: false, error}
\* for one that does not, and the returned list has one entry per item.
\* Without it, execute throws at the first item that does not load, with
\* that item's index, after the entries of the items before it and nothing
\* else.
C12_Isolation ==
    /\ Len(run.returnData) = run.i
    /\ \A j \in 1..Len(run.returnData) :
           /\ run.returnData[j].pairedItem = j - 1
           /\ run.returnData[j].json.success = run.items[j].readable
           /\ ~run.items[j].readable =>
                  run.returnData[j].json =
                      [success |-> FALSE, error |-> "cannot load the template"]
    /\ run.pc = "returned" => Len(run.returnData) = Len(run.items)
    /\ run.continueOnFail => run.pc # "thrown"
    /\ ~run.continueOnFail =>
           /\ \A j \in 1..run.i : run.items[j].readable
           /\ run.pc = "thrown" <=>
                  /\ run.i < Len(run.items)
                  /\ ~run.items[run.i + 1].readable
                  /\ run.thrown # <<>>
                  /\ run.thrown[1].itemIndex = run.i
           /\ run.pc = "returned" => \A j \in 1..Len(run.items) : run.items[j].readable

\* C12 witness: a run with continue-on-fail has returned two entries, the
\* first for an item that failed, the second for one that succeeded.
C12_Witness ==
    /\ run.pc = "returned"
    /\ run.continueOnFail
    /\ Len(run.items) = 2
    /\ ~run.items[1].readable
    /\ run.items[2].readable
    /\ run.returnData[2].json.success

\* C13: in every success entry, variablesReplaced is the mapped names that
\* have a marker in the template, each of them among templateVariables, and
\* replacementCount is their number.
C13_Metadata ==
    \A j \in 1..Len(run.returnData) :
        LET e == run.returnData[j].json
            templateData == TemplateData(run.variant, run.items[j].param)
            named == {Markers(run.items[j].template)[n].name :
                          n \in 1..Len(Markers(run.items[j].template))} IN
        e.success =>
            /\ {e.variablesReplaced[n] : n \in 1..Len(e.variablesReplaced)}
                   = Keys(templateData) \cap named
            /\ {e.variablesReplaced[n] : n \in 1..Len(e.variablesReplaced)}
                   \subseteq {e.templateVariables[n] : n \in 1..Len(e.templateVariables)}
            /\ e.replacementCount = Cardinality(Keys(templateData) \cap named)

\* ------------------------------------------------------------ order of names
\* C14: the output of a rendering with two scalar entries is the output of
\* the rendering with the same entries in the other order.
C14_OrderIrrelevant ==
    (Rendered /\ Len(data) = 2 /\ IsScalarMapping(data)) =>
        output = fillTemplate(content, <<data[2], data[1]>>)

\* ------------------------------------------------------------ idempotence
\* C16: rendering the rendered output again with the same scalar mapping
\* gives the same text, and discovery on the rendered output reports, for
\* every key that discovery finds in the template, the value of the mapping.
C16_Idempotent ==
    (Rendered /\ IsScalarMapping(data)) =>
        /\ fillTemplate(output, data) = output
        /\ \A i \in 1..Len(data) :
               data[i].k \in Keys(extractVariables(content)) =>
                   \E j \in 1..Len(extractVariables(output)) :
                       /\ extractVariables(output)[j].k = data[i].k
                       /\ extractVariables(output)[j].v = ToStr(data[i].v)

\* ------------------------------------------------------------ literal names
\* Templates whose marker names are one another's prefix or differ in one
\* character, and mappings whose keys are those names, one of them with a
\* dot.
LiteralNames == { <<"a">>, <<"a", "b">>, <<"a", "x", "b">>, <<"a", ".", "b">> }

LiteralTemplates ==
    UNION { {Concat(ss) : ss \in [1..n -> {Marker(nm, <<"x">>) : nm \in LiteralNames}]} :
                n \in 0..MaxSegs }

LiteralEntries == [k : LiteralNames, v : {Str(<<"y">>)}]

LiteralMappings ==
    {<<e>> : e \in LiteralEntries}
        \cup {<<p[1], p[2]>> : p \in {q \in LiteralEntries \X LiteralEntries : q[1].k # q[2].k}}

InitLiteral ==
    /\ content \in LiteralTemplates
    /\ op = "idle"
    /\ data = <<>>
    /\ output = <<>>
    /\ variables = <<>>
    /\ given = content
    /\ run = NoRun

FillLiteral ==
    \E d \in LiteralMappings :
        /\ op = "idle"
        /\ op' = "fillTemplate"
        /\ data' = d
        /\ output' = fillTemplate(content, d)
        /\ variables' = <<>>
        /\ content' = StoredContent(content, fillTemplate(content, d))
        /\ UNCHANGED <<given, run>>

NextLiteral == FillLiteral \/ Return

SpecLiteral == InitLiteral /\ [][NextLiteral]_vars

\* The pieces of a text, each from one \newcommand up to the next.
RECURSIVE Pieces(_)
Pieces(text) ==
    IF text = <<>> THEN <<>>
    ELSE LET later == {i \in 2..Len(text) : text[i] = "N"}
             e == IF later = {} THEN Len(text)
                  ELSE (CHOOSE i \in later : \A j \in later : i <= j) - 1 IN
         <<SubSeq(text, 1, e)>> \o Pieces(SubSeq(text, e + 1, Len(text)))

\* The name of a piece \newcommand{\name}{value}: what stands between the
\* backslash and the first closing brace.
PieceName(piece) == SubSeq(piece, 4, ValueEnd(piece, 4) - 1)

\* C15: the rendered output is the template, marker by marker: a marker whose
\* name is, character for character, a key of the mapping carries that key's
\* value, and every other marker is as it was.
C15_LiteralNames ==
    op = "fillTemplate" =>
        LET pin == Pieces(content)
            pout == Pieces(output) IN
        /\ Len(pout) = Len(pin)
        /\ \A j \in 1..Len(pin) :
               LET nm == PieceName(pin[j]) IN
               IF nm \in Keys(data)
               THEN pout[j] = Marker(nm, ToStr(data[CHOOSE i \in 1..Len(data) : data[i].k = nm].v))
               ELSE pout[j] = pin[j]

\* C15 witness: a key with a dot and a key that is a prefix have been applied
\* to a template with the markers a, ab and axb; only the marker a changed.
C15_Witness ==
    /\ op = "fillTemplate"
    /\ Keys(data) = { <<"a", ".", "b">>, <<"a">> }
    /\ content = Marker(<<"a", "x", "b">>, <<"x">>) \o Marker(<<"a", "b">>, <<"x">>)
                     \o Marker(<<"a">>, <<"x">>)
    /\ output = Marker(<<"a", "x", "b">>, <<"x">>) \o Marker(<<"a", "b">>, <<"x">>)
                    \o Marker(<<"a">>, <<"y">>)

====
